---- MODULE Spec2Model ----
(***************************************************************************)
(* Model of nrowbot/reportflow:                                            *)
(*   parseCsv            (apps/reviewer App, hand-written CSV scanner)     *)
(*   buildDrilldownTable (title / header / Score filter)                   *)
(*   DrilldownReport     (row normalisation, adjacent-duplicate blanking)  *)
(*   renderReport/Report (chosen text per section, summary text lookup)    *)
(*   App                 (uploads, selection, finalize clicks, PDF urls)   *)
(*   pdf-service         (POST /pdf, one step per await)                   *)
(* Strings are sequences of one-character strings, so that scanning,       *)
(* trimming and lower-casing are computed and not assumed.                 *)
(***************************************************************************)
EXTENDS Integers, Sequences, FiniteSets, TLC

VARIABLES
    text,            \* the uploaded file's text
    pc,              \* position: "scan" | "done" (parseCsv), "upload" | "built" | "rendered"
    clean,           \* parseCsv: text without a leading BOM
    i,               \* parseCsv: loop index (1-based here, 0-based in the source)
    rows,            \* parseCsv: rows pushed so far
    current,         \* parseCsv: cells of the row being read
    value,           \* parseCsv: characters of the cell being read
    inQuotes,        \* parseCsv: inside a quoted span
    grid,            \* parseCsv: the returned grid
    drilldownTable,  \* App state: the table built from the last good upload, or Null
    thrown,          \* message of the Error buildDrilldownTable threw, or NoError
    normalizedRows,  \* DrilldownReport: the table's rows after sanitizeRows
    displayRows,     \* DrilldownReport: the rows as displayed
    columnMeta,      \* DrilldownReport: the rendering role of each column
    cells,           \* DrilldownReport: the <td> elements of the body, row by row
    bundle,          \* App state: the uploaded DraftBundle, or Null
    chosen,          \* App state: the selection map, section id -> text
    pdfUrl,          \* App state: URL of the last summary PDF, '' when none
    drilldownPdfUrl, \* App state: URL of the last drilldown PDF, '' when none
    alerts,          \* number of alert() dialogs raised so far
    reads,           \* the file.text() calls so far, in order, settled or not
    posted,          \* the POST /pdf requests issued so far, in order
    responses,       \* per request: "pending", "ok" or "failed"
    clicks,          \* number of clicks so far on each finalize button
    html,            \* renderReport: the document returned
    detail,          \* Report: the summary detail being rendered
    summaryText,     \* Report: the text shown for the detail
    requests         \* pdf-service: the POST /pdf handler run of each request

vars ==
    <<text, pc, clean, i, rows, current, value, inQuotes, grid, drilldownTable, thrown,
      normalizedRows, displayRows, columnMeta, cells,
      bundle, chosen, pdfUrl, drilldownPdfUrl, alerts, reads, posted, responses, clicks,
      html, detail, summaryText, requests>>

serverVars == <<requests>>

sessionVars == <<bundle, chosen, pdfUrl, drilldownPdfUrl, alerts, reads, posted, responses, clicks>>

renderVars == <<html, detail, summaryText>>

reportVars == <<normalizedRows, displayRows, columnMeta, cells>>

parserVars == <<clean, i, rows, current, value, inQuotes, grid>>

----------------------------------------------------------------------------
(* Characters *)

COMMA == ","
QUOTE == "\""
LF    == "\n"
CR    == "\r"
SPACE == " "
BOM   == "\\uFEFF"
NBSP  == "\\u00a0"

\* Characters String.prototype.trim removes (those the inputs below can hold).
WhiteSpace == {SPACE, LF, CR, BOM, NBSP}

UpperCase == <<"A", "B", "C", "D", "E", "F", "G", "H", "I", "J", "K", "L", "M", "N", "O", "P", "Q", "R", "S", "T", "U", "V", "W", "X", "Y", "Z">>
LowerCase == <<"a", "b", "c", "d", "e", "f", "g", "h", "i", "j", "k", "l", "m", "n", "o", "p", "q", "r", "s", "t", "u", "v", "w", "x", "y", "z">>

\* String.prototype.toLowerCase, one character at a time.
LowerChar(c) ==
    IF \E n \in 1..Len(UpperCase): UpperCase[n] = c
    THEN LowerCase[CHOOSE n \in 1..Len(UpperCase): UpperCase[n] = c]
    ELSE c

ToLowerCase(s) == [k \in 1..Len(s) |-> LowerChar(s[k])]

RECURSIVE TrimStart(_)
TrimStart(s) ==
    IF s = <<>> THEN <<>>
    ELSE IF Head(s) \in WhiteSpace THEN TrimStart(Tail(s))
    ELSE s

RECURSIVE TrimEnd(_)
TrimEnd(s) ==
    IF s = <<>> THEN <<>>
    ELSE IF s[Len(s)] \in WhiteSpace THEN TrimEnd(SubSeq(s, 1, Len(s) - 1))
    ELSE s

\* Mutation of Trim: only leading whitespace is removed.
Trim_StartOnly(s) == TrimStart(s)

\* String.prototype.trim
Trim(s) == TrimEnd(TrimStart(s))

----------------------------------------------------------------------------
(* parseCsv *)

\* text.replace(/^BOM/, ''): a leading byte-order mark is removed
Clean(t) == IF t # <<>> /\ Head(t) = BOM THEN Tail(t) ELSE t

\* The locals of parseCsv before the loop.
ScanStart == [i |-> 1, rows |-> <<>>, current |-> <<>>, value |-> <<>>, inQuotes |-> FALSE]

\* Mutation of QuotedChar: a comma inside quotes ends the cell.
QuotedChar_CommaSplits(c, s) ==
    LET char == c[s.i] IN
    IF char = QUOTE
    THEN IF s.i + 1 <= Len(c) /\ c[s.i + 1] = QUOTE
         THEN [s EXCEPT !.value = Append(@, QUOTE), !.i = @ + 2]
         ELSE [s EXCEPT !.inQuotes = FALSE, !.i = @ + 1]
    ELSE IF char = COMMA
    THEN [s EXCEPT !.current = Append(@, Trim(s.value)), !.value = <<>>, !.i = @ + 1]
    ELSE [s EXCEPT !.value = Append(@, char), !.i = @ + 1]

\* Mutation of QuotedChar: the second quote of a doubled quote is not skipped.
QuotedChar_NoSkip(c, s) ==
    LET char == c[s.i] IN
    IF char = QUOTE
    THEN IF s.i + 1 <= Len(c) /\ c[s.i + 1] = QUOTE
         THEN [s EXCEPT !.value = Append(@, QUOTE), !.i = @ + 1]
         ELSE [s EXCEPT !.inQuotes = FALSE, !.i = @ + 1]
    ELSE [s EXCEPT !.value = Append(@, char), !.i = @ + 1]

\* Mutation of QuotedChar: a newline inside quotes ends the row.
QuotedChar_NewlineEndsRow(c, s) ==
    LET char == c[s.i] IN
    IF char = QUOTE
    THEN IF s.i + 1 <= Len(c) /\ c[s.i + 1] = QUOTE
         THEN [s EXCEPT !.value = Append(@, QUOTE), !.i = @ + 2]
         ELSE [s EXCEPT !.inQuotes = FALSE, !.i = @ + 1]
    ELSE IF char = LF
    THEN [s EXCEPT !.rows = Append(@, Append(s.current, s.value)),
                   !.current = <<>>, !.value = <<>>, !.i = @ + 1]
    ELSE [s EXCEPT !.value = Append(@, char), !.i = @ + 1]

\* One loop iteration inside a quoted span (the `if (inQuotes)` block).
QuotedChar(c, s) ==
    LET char == c[s.i] IN
    IF char = QUOTE
    THEN IF s.i + 1 <= Len(c) /\ c[s.i + 1] = QUOTE
         THEN [s EXCEPT !.value = Append(@, QUOTE), !.i = @ + 2]
         ELSE [s EXCEPT !.inQuotes = FALSE, !.i = @ + 1]
    ELSE [s EXCEPT !.value = Append(@, char), !.i = @ + 1]

\* One loop iteration outside quotes.
PlainChar(c, s) ==
    LET char == c[s.i] IN
    IF char = QUOTE
    THEN [s EXCEPT !.inQuotes = TRUE, !.i = @ + 1]
    ELSE IF char = COMMA
    THEN [s EXCEPT !.current = Append(@, Trim(s.value)), !.value = <<>>, !.i = @ + 1]
    ELSE IF char = LF
    THEN [s EXCEPT !.rows = Append(@, Append(s.current, Trim(s.value))),
                   !.current = <<>>, !.value = <<>>, !.i = @ + 1]
    ELSE [s EXCEPT !.value = Append(@, char), !.i = @ + 1]

\* One iteration of the for loop over clean, on the locals s.
ScanChar(c, s) ==
    IF c[s.i] = CR THEN [s EXCEPT !.i = @ + 1]
    ELSE IF s.inQuotes THEN QuotedChar(c, s)
    ELSE PlainChar(c, s)

\* Mutation of Flush: an unterminated quoted value is thrown away.
Flush_DropUnterminated(s) ==
    LET last == Append(s.current, IF s.inQuotes THEN <<>> ELSE Trim(s.value)) IN
    [s EXCEPT !.current = last, !.rows = Append(@, last)]

\* After the loop: current.push(value.trim()); rows.push(current)
Flush(s) ==
    LET last == Append(s.current, Trim(s.value)) IN
    [s EXCEPT !.current = last, !.rows = Append(@, last)]

\* Mutation of PostProcess: blank rows are kept.
PostProcess_KeepBlank(rs) == [r \in 1..Len(rs) |-> [k \in 1..Len(rs[r]) |-> Trim(rs[r][k])]]

\* row.some((cell) => cell.length)
SomeCell(row) == \E k \in 1..Len(row): Len(row[k]) > 0

\* rows.map((row) => row.map((cell) => cell.trim())).filter((row) => row.some(...))
PostProcess(rs) ==
    SelectSeq([r \in 1..Len(rs) |-> [k \in 1..Len(rs[r]) |-> Trim(rs[r][k])]], SomeCell)

RECURSIVE ScanAll(_, _)
ScanAll(c, s) == IF s.i > Len(c) THEN s ELSE ScanAll(c, ScanChar(c, s))

\* parseCsv as a function of its argument.
ParseCsv(t) == PostProcess(Flush(ScanAll(Clean(t), ScanStart)).rows)


----------------------------------------------------------------------------
(* buildDrilldownTable *)

Null      == [kind |-> "null"]
Undefined == <<"undefined">>
NoError   == "none"

EmptyError   == "CSV is empty"
HeaderError  == "CSV missing header row"
NoDataError  == "CSV missing data rows"

Str_score  == <<"s", "c", "o", "r", "e">>
Str_Column == <<"C", "o", "l", "u", "m", "n", " ">>

\* Mutation of HasSoloFirstCell: only a one-cell row is a title.
HasSoloFirstCell_OneCellOnly(firstRow) == Len(firstRow) <= 1

\* Mutation of HasSoloFirstCell: a row with an empty first cell is a title too.
HasSoloFirstCell_OrEmptyFirst(firstRow) ==
    \/ Len(firstRow) <= 1
    \/ firstRow[1] = <<>>
    \/ \A k \in 2..Len(firstRow): Len(firstRow[k]) = 0

\* firstRow.length <= 1 || firstRow.slice(1).every((cell) => !cell.length)
HasSoloFirstCell(firstRow) ==
    Len(firstRow) <= 1 \/ \A k \in 2..Len(firstRow): Len(firstRow[k]) = 0

\* Mutation of HeaderLabel: the synthetic label counts from 0.
HeaderLabel_ZeroBased(header, k) ==
    IF header # <<>> THEN header ELSE Str_Column \o <<ToString(k - 1)>>

\* header || `Column ${idx + 1}`   (k is the 1-based position, idx + 1)
HeaderLabel(header, k) == IF header # <<>> THEN header ELSE Str_Column \o <<ToString(k)>>

Headers(headerRow) == [k \in 1..Len(headerRow) |-> HeaderLabel(headerRow[k], k)]

\* Mutation of ScoreColumnIndex: the comparison is case-sensitive.
ScoreColumnIndex_CaseSensitive(headers) ==
    LET hits == {k \in 1..Len(headers): Trim(headers[k]) = Str_score} IN
    IF hits = {} THEN 0 ELSE CHOOSE k \in hits: \A m \in hits: k <= m

\* headers.findIndex((header) => header.trim().toLowerCase() === 'score'),
\* 1-based; 0 stands for -1.
ScoreColumnIndex(headers) ==
    LET hits == {k \in 1..Len(headers): ToLowerCase(Trim(headers[k])) = Str_score} IN
    IF hits = {} THEN 0 ELSE CHOOSE k \in hits: \A m \in hits: k <= m

\* (row[scoreColumnIndex] ?? '').length > 0
HasScore(row, idx) == idx <= Len(row) /\ Len(row[idx]) > 0

FilterRows(dataRows, idx) ==
    IF idx = 0 THEN dataRows
    ELSE SelectSeq(dataRows, LAMBDA row: HasScore(row, idx))

\* Mutation of BuildDrilldownTable: a missing header is reported as missing data rows.
BuildDrilldownTable_HeaderAsData(t) ==
    LET parsed == ParseCsv(t) IN
    IF Len(parsed) = 0 THEN [thrown |-> EmptyError, table |-> Null]
    ELSE
        LET solo        == HasSoloFirstCell(parsed[1])
            title       == IF solo THEN parsed[1][1] ELSE Undefined
            workingRows == IF solo THEN Tail(parsed) ELSE parsed
        IN
        IF Len(workingRows) <= 1 THEN [thrown |-> NoDataError, table |-> Null]
        ELSE
            LET headers  == Headers(workingRows[1])
                dataRows == Tail(workingRows)
            IN [thrown |-> NoError,
                table  |-> [kind |-> "table", title |-> title, columns |-> headers,
                            rows |-> FilterRows(dataRows, ScoreColumnIndex(headers))]]

\* buildDrilldownTable: the Error thrown (or NoError) and the table returned.
BuildDrilldownTable(t) ==
    LET parsed == ParseCsv(t) IN
    IF Len(parsed) = 0 THEN [thrown |-> EmptyError, table |-> Null]
    ELSE
        LET solo        == HasSoloFirstCell(parsed[1])
            title       == IF solo THEN parsed[1][1] ELSE Undefined
            workingRows == IF solo THEN Tail(parsed) ELSE parsed
        IN
        IF Len(workingRows) = 0 THEN [thrown |-> HeaderError, table |-> Null]
        ELSE
            LET headers  == Headers(workingRows[1])
                dataRows == Tail(workingRows)
            IN
            IF Len(dataRows) = 0 THEN [thrown |-> NoDataError, table |-> Null]
            ELSE [thrown |-> NoError,
                  table  |-> [kind |-> "table", title |-> title, columns |-> headers,
                              rows |-> FilterRows(dataRows, ScoreColumnIndex(headers))]]

----------------------------------------------------------------------------
(* DrilldownReport *)

Str_growth_category == <<"g", "r", "o", "w", "t", "h", " ", "c", "a", "t", "e", "g", "o", "r", "y">>

\* String.prototype.includes
Includes(s, sub) == \E k \in 0..(Len(s) - Len(sub)): SubSeq(s, k + 1, k + Len(sub)) = sub

\* Mutation of SanitizeRows: rows are trimmed but neither padded nor cut.
SanitizeRows_NoPad(columns, rs) ==
    [r \in 1..Len(rs) |-> [k \in 1..Len(rs[r]) |-> Trim(rs[r][k])]]

\* Mutation of SanitizeRows: short rows are padded but long rows are not cut.
SanitizeRows_KeepsExtra(columns, rs) ==
    [r \in 1..Len(rs) |->
        LET n == IF Len(rs[r]) > Len(columns) THEN Len(rs[r]) ELSE Len(columns) IN
        [k \in 1..n |-> IF k <= Len(rs[r]) THEN Trim(rs[r][k]) ELSE <<>>]]

\* sanitizeRows: one cell per column; a missing cell is '', a string is trimmed.
\* A row that is null or undefined has no cell at any index (row?.[idx]), as a
\* row without cells has: both are the row <<>> here.
SanitizeRows(columns, rs) ==
    [r \in 1..Len(rs) |->
        [k \in 1..Len(columns) |-> IF k <= Len(rs[r]) THEN Trim(rs[r][k]) ELSE <<>>]]

\* Mutation of DisplayRows: repeated values are not blanked.
DisplayRows_NoDedup(normRows) == normRows

\* Mutation of DisplayRows: a cell is compared with what is shown above it.
DisplayRows_AgainstShown(normRows) ==
    LET RECURSIVE Shown(_, _)
        Shown(r, k) ==
            LET cell == normRows[r][k] IN
            IF cell = <<>> THEN <<>>
            ELSE IF r > 1 /\ k <= Len(normRows[r - 1]) /\ Shown(r - 1, k) = cell
            THEN <<>>
            ELSE cell
    IN [r \in 1..Len(normRows) |-> [k \in 1..Len(normRows[r]) |-> Shown(r, k)]]

\* displayRows: a cell equal to the one above it is shown as ''.
DisplayRows(normRows) ==
    [r \in 1..Len(normRows) |->
        [k \in 1..Len(normRows[r]) |->
            LET cell == normRows[r][k] IN
            IF cell = <<>> THEN <<>>
            ELSE IF r > 1 /\ k <= Len(normRows[r - 1]) /\ normRows[r - 1][k] = cell
            THEN <<>>
            ELSE cell]]

Str_kpis == <<"k", "p", "i", "s">>
Str_category == <<"c", "a", "t", "e", "g", "o", "r", "y">>
Str_kpi == <<"k", "p", "i">>
Str_description == <<"d", "e", "s", "c", "r", "i", "p", "t", "i", "o", "n">>
Str_profit_driver == <<"p", "r", "o", "f", "i", "t", " ", "d", "r", "i", "v", "e", "r">>

\* Mutation of ColumnMeta: "profit driver" is tested before "growth category".
ColumnMeta_ProfitFirst(column) ==
    LET key == Trim(ToLowerCase(column)) IN
    IF Includes(key, Str_profit_driver)
    THEN [label |-> column, headerLabel |-> column, width |-> "157px",
          className |-> "detail-column", isGrowth |-> FALSE]
    ELSE IF Includes(key, Str_growth_category)
    THEN [label |-> column, headerLabel |-> <<>>, width |-> "30px",
          className |-> "growth-column", isGrowth |-> TRUE]
    ELSE IF key = Str_kpis
    THEN [label |-> column, headerLabel |-> column, width |-> "50px",
          className |-> "indent-column indent-kpis", isGrowth |-> FALSE]
    ELSE IF key = Str_category
    THEN [label |-> column, headerLabel |-> column, width |-> "110px",
          className |-> "indent-column indent-category", isGrowth |-> FALSE]
    ELSE IF key = Str_score
    THEN [label |-> column, headerLabel |-> column, width |-> "40px",
          className |-> "detail-column", isGrowth |-> FALSE]
    ELSE IF key = Str_kpi
    THEN [label |-> column, headerLabel |-> column, width |-> "310px",
          className |-> "detail-column", isGrowth |-> FALSE]
    ELSE IF key = Str_description
    THEN [label |-> column, headerLabel |-> column, width |-> "242px",
          className |-> "detail-column", isGrowth |-> FALSE]
    ELSE [label |-> column, headerLabel |-> column, width |-> "150px",
          className |-> "detail-column", isGrowth |-> FALSE]

\* columnMeta: the role of a column, from its header (an absent isGrowth is FALSE).
ColumnMeta(column) ==
    LET key == Trim(ToLowerCase(column)) IN
    IF Includes(key, Str_growth_category)
    THEN [label |-> column, headerLabel |-> <<>>, width |-> "30px",
          className |-> "growth-column", isGrowth |-> TRUE]
    ELSE IF key = Str_kpis
    THEN [label |-> column, headerLabel |-> column, width |-> "50px",
          className |-> "indent-column indent-kpis", isGrowth |-> FALSE]
    ELSE IF key = Str_category
    THEN [label |-> column, headerLabel |-> column, width |-> "110px",
          className |-> "indent-column indent-category", isGrowth |-> FALSE]
    ELSE IF key = Str_score
    THEN [label |-> column, headerLabel |-> column, width |-> "40px",
          className |-> "detail-column", isGrowth |-> FALSE]
    ELSE IF key = Str_kpi
    THEN [label |-> column, headerLabel |-> column, width |-> "310px",
          className |-> "detail-column", isGrowth |-> FALSE]
    ELSE IF key = Str_description
    THEN [label |-> column, headerLabel |-> column, width |-> "242px",
          className |-> "detail-column", isGrowth |-> FALSE]
    ELSE IF Includes(key, Str_profit_driver)
    THEN [label |-> column, headerLabel |-> column, width |-> "157px",
          className |-> "detail-column", isGrowth |-> FALSE]
    ELSE [label |-> column, headerLabel |-> column, width |-> "150px",
          className |-> "detail-column", isGrowth |-> FALSE]

\* columnMeta[..].isGrowth
IsGrowth(column) == ColumnMeta(column).isGrowth

\* Mutation of Td: the display value is the content even when it is blank.
Td_NoPlaceholder(columns, normRows, dispRows, r, k) ==
    LET displayValue == IF k <= Len(dispRows[r]) THEN dispRows[r][k] ELSE <<>>
        rawValue     == IF k <= Len(normRows[r]) THEN normRows[r][k] ELSE <<>>
        hasValue     == Trim(displayValue) # <<>>
    IN [empty     |-> displayValue = <<>>,
        dataValue |-> rawValue,
        badge     |-> IsGrowth(columns[k]) /\ hasValue,
        content   |-> displayValue]

\* The <td> of body row r, column k:
\*   displayValue = row[colIdx], rawValue = normalizedRows[rowIdx]?.[colIdx] ?? ''
\* (a cell the row does not have is undefined: falsy, and '' as data-value).
Td(columns, normRows, dispRows, r, k) ==
    LET displayValue == IF k <= Len(dispRows[r]) THEN dispRows[r][k] ELSE <<>>
        rawValue     == IF k <= Len(normRows[r]) THEN normRows[r][k] ELSE <<>>
        hasValue     == Trim(displayValue) # <<>>
    IN [empty     |-> displayValue = <<>>,
        dataValue |-> rawValue,
        badge     |-> IsGrowth(columns[k]) /\ hasValue,
        content   |-> IF hasValue THEN displayValue ELSE <<NBSP>>]

\* The <tbody> of DrilldownReport: one <tr> per display row, one <td> per column.
Body(columns, normRows, dispRows) ==
    [r \in 1..Len(dispRows) |->
        [k \in 1..Len(columns) |-> Td(columns, normRows, dispRows, r, k)]]

----------------------------------------------------------------------------
(* renderReport and Report; ids, titles and texts are whole strings here *)

\* const [chosen, setChosen] = useState<SectionSelection>({})
EmptySelection == [id \in {} |-> ""]

\* chosen and sectionLookup are plain objects: reading a key that is not an
\* own property falls through to Object.prototype, whose members are functions.
ObjectPrototype ==
    [constructor |-> "function Object() { [native code] }",
     toString    |-> "function toString() { [native code] }"]

\* chosen[section.id] ?? section.options?.[0]?.text ?? ''
SectionText(section, sel) ==
    IF section.id \in DOMAIN sel THEN sel[section.id]
    ELSE IF section.id \in DOMAIN ObjectPrototype THEN ObjectPrototype[section.id]
    ELSE IF section.options # <<>> THEN section.options[1].text
    ELSE ""

\* renderReport: the document, as the props handed to Report.
RenderReport(b, sel) ==
    [kind       |-> "report",
     clientName |-> b.clientName,
     sections   |-> [n \in 1..Len(b.sections) |->
                        [id    |-> b.sections[n].id,
                         title |-> b.sections[n].title,
                         text  |-> SectionText(b.sections[n], sel)]]]

\* sectionLookup[id] as far as resolveSummaryText looks at it: whether it is
\* truthy, and its text ('' standing for no text). Object.fromEntries keeps the
\* last section of an id; a member of Object.prototype is a function, which is
\* truthy and has no text.
SectionLookup(sections, id) ==
    LET at == {n \in 1..Len(sections): sections[n].id = id} IN
    IF at # {} THEN [truthy |-> TRUE, text |-> sections[CHOOSE n \in at: \A m \in at: m <= n].text]
    ELSE IF id \in DOMAIN ObjectPrototype THEN [truthy |-> TRUE, text |-> ""]
    ELSE [truthy |-> FALSE, text |-> ""]

\* An optional string property that is present and not ''.
Truthy(rec, field) == field \in DOMAIN rec /\ rec[field] # ""

\* resolveSummaryText:
\*   linked = (detail.sectionId && sectionLookup[detail.sectionId]) || sectionLookup[detail.id]
\*   linked?.text || detail.text || ''
ResolveSummaryText(sections, d) ==
    LET bySection == IF Truthy(d, "sectionId") THEN SectionLookup(sections, d.sectionId)
                     ELSE [truthy |-> FALSE, text |-> ""]
        linked    == IF bySection.truthy THEN bySection ELSE SectionLookup(sections, d.id)
    IN IF linked.truthy /\ linked.text # "" THEN linked.text
       ELSE IF Truthy(d, "text") THEN d.text
       ELSE ""

\* useState<string>('') for both PDF URLs; URL.createObjectURL gives every
\* response a URL of its own, named here by the request it answers.
NoUrl == [blob |-> 0]

ObjectUrl(request) == [blob |-> request]

\* renderDrilldownReport(table): the column roles and the body cells.
RenderDrilldownReport(table) ==
    LET norm == SanitizeRows(table.columns, table.rows) IN
    [kind       |-> "drilldown",
     columnMeta |-> [k \in 1..Len(table.columns) |-> ColumnMeta(table.columns[k])],
     cells      |-> Body(table.columns, norm, DisplayRows(norm))]

\* JSON.parse(text) threw.
MalformedJson == [kind |-> "malformed"]

\* !parsed.clientName || !parsed.sections is false
HasRequiredFields(parsed) ==
    /\ parsed # MalformedJson
    /\ Truthy(parsed, "clientName")
    /\ "sections" \in DOMAIN parsed

NoClicks == [report |-> 0, drilldown |-> 0]

\* The state of a session that has done nothing yet.
SessionStart ==
    /\ bundle = Null
    /\ chosen = EmptySelection
    /\ pdfUrl = NoUrl
    /\ drilldownPdfUrl = NoUrl
    /\ alerts = 0
    /\ reads = <<>>
    /\ posted = <<>>
    /\ responses = <<>>
    /\ clicks = NoClicks

NoDetail == [id |-> ""]

RenderIdle ==
    /\ html = Null
    /\ detail = NoDetail
    /\ summaryText = ""

----------------------------------------------------------------------------
(* pdf-service: POST /pdf *)

MaxRequests == 2

\* A request that has not arrived yet.
NotReceived == [pc |-> "idle", hasHtml |-> FALSE, browser |-> "none", response |-> "none"]

ServerIdle == requests = [q \in 1..MaxRequests |-> NotReceived]

\* What the client gets when the async handler rejects: the handler has no
\* try/catch, so it is up to the framework; a router that ignores the returned
\* promise sends nothing, one that forwards the rejection sends an error.
RejectionResponses == {"none", "error"}

----------------------------------------------------------------------------
(* Inputs *)

MaxLen   == 4
MaxLines == 3

Alphabet == {"a", COMMA, LF, CR, QUOTE, SPACE, BOM}

\* Every text of at most MaxLen characters.
RawTexts == UNION {[1..n -> Alphabet] : n \in 0..MaxLen}

Str_Score == <<"S", "c", "o", "r", "e">>

CellPool == {<<>>, <<"a">>, Str_Score}

LinePool ==
    {<<c>> : c \in CellPool} \cup {<<c, d>> : c \in CellPool, d \in CellPool}
        \cup {<< <<"a">>, <<"a">>, <<"a">> >>, << <<>>, <<>>, <<"a">> >>}

RECURSIVE JoinWith(_, _)
JoinWith(parts, sep) ==
    IF parts = <<>> THEN <<>>
    ELSE IF Len(parts) = 1 THEN parts[1]
    ELSE parts[1] \o <<sep>> \o JoinWith(Tail(parts), sep)

CsvText(lines) == JoinWith([n \in 1..Len(lines) |-> JoinWith(lines[n], COMMA)], LF)

\* Every CSV file of at most MaxLines lines taken from LinePool.
CsvTexts == {CsvText(ls) : ls \in UNION {[1..n -> LinePool] : n \in 1..MaxLines}}

MaxCols == 2
MaxRows == 3

\* Column headers a table can be given.
HeaderPool ==
    {<<"G", "r", "o", "w", "t", "h", " ", "C", "a", "t", "e", "g", "o", "r", "y">>,
     <<"M", "y", " ", "g", "r", "o", "w", "t", "h", " ", "c", "a", "t", "e", "g", "o", "r", "y">>,
     <<"K", "P", "I", "s">>,
     <<"C", "a", "t", "e", "g", "o", "r", "y">>,
     <<"S", "c", "o", "r", "e">>,
     <<" ", "s", "c", "o", "r", "e">>,
     <<"K", "P", "I">>,
     <<"D", "e", "s", "c", "r", "i", "p", "t", "i", "o", "n">>,
     <<"P", "r", "o", "f", "i", "t", " ", "D", "r", "i", "v", "e", "r">>,
     <<"P", "r", "o", "f", "i", "t", " ", "d", "r", "i", "v", "e", "r", " ", "g", "r", "o", "w", "t", "h", " ", "c", "a", "t", "e", "g", "o", "r", "y">>,
     <<"C", "a", "t", "e", "g", "o", "r", "i", "e", "s">>,
     <<"a">>}

ValuePool == {<<>>, <<"a">>, <<"b">>, <<" ", "a">>}

\* Rows of up to two cells: shorter than, as long as or longer than the columns.
RowPool == {<<>>} \cup {<<v>> : v \in ValuePool} \cup {<<v, w>> : v \in ValuePool, w \in ValuePool}

Table(columns, rs) == [kind |-> "table", title |-> Undefined, columns |-> columns, rows |-> rs]

\* Tables of up to MaxCols columns with any headers and no rows.
HeaderTables ==
    {Table(cs, <<>>) : cs \in UNION {[1..n -> HeaderPool] : n \in 1..MaxCols}}

\* Tables of up to MaxRows rows under a growth-badge column, a plain column or both.
RowTables ==
    {Table(cs, rs) :
        cs \in {<<<<"G", "r", "o", "w", "t", "h", " ", "C", "a", "t", "e", "g", "o", "r", "y">>>>, <<<<"G", "r", "o", "w", "t", "h", " ", "C", "a", "t", "e", "g", "o", "r", "y">>, <<"a">>>>, << <<"a">> >>},
        rs \in UNION {[1..n -> RowPool] : n \in 0..MaxRows}}

Option(id, t) == [id |-> id, text |-> t]

Section(id, title, options) == [id |-> id, title |-> title, options |-> options]

Bundle(clientName, sections) == [kind |-> "bundle", clientName |-> clientName, sections |-> sections]

\* Bundles: two sections, one without options; one section that shares its id
\* with the first bundle; an option with empty text; a section whose id names
\* a member of Object.prototype; no section at all.
Bundles ==
    {Bundle("Acme", <<Section("s1", "T1", <<Option("o1", "x"), Option("o2", "y")>>),
                      Section("s2", "T2", <<>>)>>),
     Bundle("Bolt", <<Section("s1", "U1", <<Option("o1", "z")>>)>>),
     Bundle("Core", <<Section("s2", "V2", <<Option("o1", ""), Option("o2", "w")>>),
                      Section("s1", "V1", <<Option("o1", "x")>>)>>),
     Bundle("Edge", <<Section("constructor", "W0", <<Option("o1", "x")>>),
                      Section("s1", "W1", <<Option("o1", "y")>>)>>),
     Bundle("Dash", <<>>)}

\* Texts an operator can have typed into a section's text box.
TypedTexts == {"", "typed"}

\* Selection maps over some of the ids s1, s2 and s9 (no bundle has an s9).
Selections ==
    UNION {[ids -> TypedTexts \cup {"x"}] : ids \in SUBSET {"s1", "s2", "s9"}}

\* Summary details: sectionId and text are optional.
Details ==
    {[id |-> id] : id \in {"s1", "s2", "d1"}}
        \cup {[id |-> id, sectionId |-> sid] : id \in {"s1", "d1"}, sid \in {"", "s1", "s2", "s9", "constructor"}}
        \cup {[id |-> id, text |-> t] : id \in {"s1", "d1"}, t \in {"", "D"}}
        \cup {[id |-> id, sectionId |-> sid, text |-> t] :
                  id \in {"s1", "d1"}, sid \in {"", "s1", "s2", "s9", "constructor"}, t \in {"", "D"}}

\* Uploads started plus finalize clicks made in one session.
MaxOperations == 3

\* Bundle files: unparsable text, JSON without clientName, with an empty
\* clientName, without sections, and two bundles that share the section id s1.
BundleFiles ==
    {MalformedJson,
     [kind |-> "bundle", sections |-> <<>>],
     [kind |-> "bundle", clientName |-> "", sections |-> <<>>],
     [kind |-> "bundle", clientName |-> "Acme"],
     Bundle("Acme", <<Section("s1", "T1", <<Option("o1", "x"), Option("o2", "y")>>),
                      Section("s2", "T2", <<>>)>>),
     Bundle("Bolt", <<Section("s1", "U1", <<Option("o1", "z")>>)>>)}

\* Drilldown files: two that build a table and one that does not.
DrilldownFiles ==
    {CsvText(<< <<(<<"a">>), Str_Score>>, <<(<<"a">>), (<<"a">>)>> >>),
     CsvText(<< <<Str_Score>>, <<(<<"a">>)>>, <<(<<"a">>)>> >>),
     CsvText(<< <<Str_Score>> >>)}

----------------------------------------------------------------------------
(* parseCsv run one loop iteration at a time *)

InitParse ==
    /\ text \in RawTexts
    /\ pc = "scan"
    /\ clean = Clean(text)
    /\ i = ScanStart.i
    /\ rows = ScanStart.rows
    /\ current = ScanStart.current
    /\ value = ScanStart.value
    /\ inQuotes = ScanStart.inQuotes
    /\ grid = <<>>
    /\ drilldownTable = Null
    /\ thrown = NoError
    /\ normalizedRows = <<>>
    /\ displayRows = <<>>
    /\ columnMeta = <<>>
    /\ cells = <<>>
    /\ SessionStart
    /\ RenderIdle
    /\ ServerIdle

Locals == [i |-> i, rows |-> rows, current |-> current, value |-> value, inQuotes |-> inQuotes]

\* for (let i = 0; i < clean.length; i++) { ... }
Scan ==
    /\ pc = "scan"
    /\ i <= Len(clean)
    /\ LET s == ScanChar(clean, Locals) IN
        /\ i' = s.i
        /\ rows' = s.rows
        /\ current' = s.current
        /\ value' = s.value
        /\ inQuotes' = s.inQuotes
    /\ UNCHANGED <<text, pc, clean, grid, drilldownTable, thrown>>
    /\ UNCHANGED reportVars
    /\ UNCHANGED sessionVars
    /\ UNCHANGED renderVars
    /\ UNCHANGED serverVars

\* The loop is over: flush the pending cell and row, post-process, return.
Return ==
    /\ pc = "scan"
    /\ i > Len(clean)
    /\ LET s == Flush(Locals) IN
        /\ rows' = s.rows
        /\ current' = s.current
        /\ grid' = PostProcess(s.rows)
    /\ pc' = "done"
    /\ UNCHANGED <<text, clean, i, value, inQuotes, drilldownTable, thrown>>
    /\ UNCHANGED reportVars
    /\ UNCHANGED sessionVars
    /\ UNCHANGED renderVars
    /\ UNCHANGED serverVars

NextParse == Scan \/ Return

SpecParse == InitParse /\ [][NextParse]_vars

\* The loop runs to completion: nothing suspends a synchronous function.
FairSpecParse == SpecParse /\ WF_vars(NextParse)

----------------------------------------------------------------------------
(* Upload of a drilldown CSV and its preview *)

InitDrilldown ==
    /\ text \in CsvTexts
    /\ pc = "upload"
    /\ clean = <<>>
    /\ i = ScanStart.i
    /\ rows = ScanStart.rows
    /\ current = ScanStart.current
    /\ value = ScanStart.value
    /\ inQuotes = ScanStart.inQuotes
    /\ grid = <<>>
    /\ drilldownTable = Null
    /\ thrown = NoError
    /\ normalizedRows = <<>>
    /\ displayRows = <<>>
    /\ columnMeta = <<>>
    /\ cells = <<>>
    /\ SessionStart
    /\ RenderIdle
    /\ ServerIdle

\* onDrilldownUpload: build the table and store it, or alert.
OnDrilldownUpload ==
    /\ pc = "upload"
    /\ LET r == BuildDrilldownTable(text) IN
        /\ thrown' = r.thrown
        /\ drilldownTable' = IF r.thrown = NoError THEN r.table ELSE drilldownTable
    /\ pc' = "built"
    /\ UNCHANGED text
    /\ UNCHANGED reportVars
    /\ UNCHANGED sessionVars
    /\ UNCHANGED renderVars
    /\ UNCHANGED serverVars
    /\ UNCHANGED parserVars

\* drilldownPreviewHtml: the stored table is rendered by DrilldownReport.
DrilldownReport ==
    /\ pc = "built"
    /\ drilldownTable # Null
    /\ normalizedRows' = SanitizeRows(drilldownTable.columns, drilldownTable.rows)
    /\ displayRows' = DisplayRows(normalizedRows')
    /\ columnMeta' = [k \in 1..Len(drilldownTable.columns) |-> ColumnMeta(drilldownTable.columns[k])]
    /\ cells' = Body(drilldownTable.columns, normalizedRows', displayRows')
    /\ pc' = "rendered"
    /\ UNCHANGED <<text, drilldownTable, thrown>>
    /\ UNCHANGED parserVars
    /\ UNCHANGED sessionVars
    /\ UNCHANGED renderVars
    /\ UNCHANGED serverVars

NextDrilldown == OnDrilldownUpload \/ DrilldownReport

SpecDrilldown == InitDrilldown /\ [][NextDrilldown]_vars

----------------------------------------------------------------------------
(* DrilldownReport given a table directly (renderDrilldownReport) *)

InitReport ==
    /\ text = <<>>
    /\ pc = "built"
    /\ clean = <<>>
    /\ i = ScanStart.i
    /\ rows = ScanStart.rows
    /\ current = ScanStart.current
    /\ value = ScanStart.value
    /\ inQuotes = ScanStart.inQuotes
    /\ grid = <<>>
    /\ drilldownTable \in HeaderTables \cup RowTables
    /\ thrown = NoError
    /\ normalizedRows = <<>>
    /\ displayRows = <<>>
    /\ columnMeta = <<>>
    /\ cells = <<>>
    /\ SessionStart
    /\ RenderIdle
    /\ ServerIdle

NextReport == DrilldownReport

SpecReport == InitReport /\ [][NextReport]_vars

----------------------------------------------------------------------------
(* renderReport on a bundle and a selection map, then Report on its sections *)

InitRender ==
    /\ text = <<>>
    /\ pc = "renderReport"
    /\ clean = <<>>
    /\ i = ScanStart.i
    /\ rows = ScanStart.rows
    /\ current = ScanStart.current
    /\ value = ScanStart.value
    /\ inQuotes = ScanStart.inQuotes
    /\ grid = <<>>
    /\ drilldownTable = Null
    /\ thrown = NoError
    /\ normalizedRows = <<>>
    /\ displayRows = <<>>
    /\ columnMeta = <<>>
    /\ cells = <<>>
    /\ bundle \in Bundles
    /\ chosen \in Selections
    /\ pdfUrl = NoUrl
    /\ drilldownPdfUrl = NoUrl
    /\ alerts = 0
    /\ reads = <<>>
    /\ posted = <<>>
    /\ responses = <<>>
    /\ clicks = NoClicks
    /\ html = Null
    /\ detail \in Details
    /\ summaryText = ""
    /\ ServerIdle

\* renderReport(bundle, chosen)
RenderReportCall ==
    /\ pc = "renderReport"
    /\ html' = RenderReport(bundle, chosen)
    /\ pc' = "Report"
    /\ UNCHANGED <<text, drilldownTable, thrown, detail, summaryText>>
    /\ UNCHANGED serverVars
    /\ UNCHANGED parserVars
    /\ UNCHANGED reportVars
    /\ UNCHANGED sessionVars

\* Report renders the summary detail against the sections it was given.
Report ==
    /\ pc = "Report"
    /\ summaryText' = ResolveSummaryText(html.sections, detail)
    /\ pc' = "shown"
    /\ UNCHANGED <<text, drilldownTable, thrown, html, detail>>
    /\ UNCHANGED serverVars
    /\ UNCHANGED parserVars
    /\ UNCHANGED reportVars
    /\ UNCHANGED sessionVars

NextRender == RenderReportCall \/ Report

SpecRender == InitRender /\ [][NextRender]_vars

----------------------------------------------------------------------------
(* Properties of parseCsv, checked under SpecParse *)

\* Number of double quotes among the first n characters of c.
RECURSIVE QuotesIn(_, _)
QuotesIn(c, n) == IF n = 0 THEN 0 ELSE QuotesIn(c, n - 1) + (IF c[n] = QUOTE THEN 1 ELSE 0)

\* Position k of c lies between an opening quote and its closing quote:
\* an odd number of double quotes precedes it.
Enclosed(c, k) == QuotesIn(c, k - 1) % 2 = 1

\* Commas and newlines of c that stand outside quotes.
Separators(c) == {k \in 1..Len(c): c[k] \in {COMMA, LF} /\ ~Enclosed(c, k)}

RECURSIVE CellCount(_)
CellCount(rs) == IF rs = <<>> THEN 0 ELSE Len(Head(rs)) + CellCount(Tail(rs))

\* C3: a comma between an opening quote and its closing quote does not end
\* the cell. Scanning such a comma appends it to the cell being read and
\* pushes nothing; a scan step adds a cell to the current row only for a comma
\* outside quotes; and the rows read hold one cell per separator outside
\* quotes plus the last one, so a quoted field is one cell, commas included.
C3_QuotedCommaKeptInCell ==
    /\ [][(pc = "scan" /\ i <= Len(clean)) =>
            /\ (clean[i] = COMMA /\ Enclosed(clean, i)) =>
                  (value' = Append(value, COMMA) /\ current' = current /\ rows' = rows)
            /\ (pc' = "scan" /\ Len(current') > Len(current)) =>
                  (clean[i] = COMMA /\ ~Enclosed(clean, i))]_vars
    /\ [](pc = "done" => CellCount(rows) = Cardinality(Separators(clean)) + 1)

\* A quoted comma has been scanned and the cell still holds it.
C3_Witness ==
    /\ pc = "scan"
    /\ inQuotes
    /\ i > 1
    /\ clean[i - 1] = COMMA
    /\ value # <<>>
    /\ value[Len(value)] = COMMA

\* C4: inside a quoted span a pair of adjacent double quotes adds exactly one
\* literal double quote at the end of the cell being read, is consumed as one
\* unit (the index moves past both) and leaves the scanner inside the span.
C4_DoubledQuoteIsOneLiteral ==
    [][(pc = "scan" /\ inQuotes /\ i + 1 <= Len(clean)
            /\ clean[i] = QUOTE /\ clean[i + 1] = QUOTE) =>
          /\ value' = Append(value, QUOTE)
          /\ i' = i + 2
          /\ inQuotes'
          /\ current' = current
          /\ rows' = rows]_vars

\* A doubled quote has been consumed inside a span.
C4_Witness ==
    /\ pc = "scan"
    /\ inQuotes
    /\ i > 2
    /\ clean[i - 1] = QUOTE
    /\ clean[i - 2] = QUOTE
    /\ value # <<>>
    /\ value[Len(value)] = QUOTE

\* What a stretch of characters read inside one quoted span adds to the
\* cell: carriage returns vanish, a doubled quote counts once.
RECURSIVE Unquoted(_)
Unquoted(seg) ==
    IF seg = <<>> THEN <<>>
    ELSE IF Head(seg) = CR THEN Unquoted(Tail(seg))
    ELSE IF Head(seg) = QUOTE THEN <<QUOTE>> \o Unquoted(Tail(Tail(seg)))
    ELSE <<Head(seg)>> \o Unquoted(Tail(seg))

\* The quotes of c that open a quoted span: preceded by an even number of
\* double quotes and not directly by one (a quote that directly follows
\* another closes the span or is the second half of a doubled quote).
OpeningQuotes(c) ==
    {q \in 1..Len(c): c[q] = QUOTE /\ ~Enclosed(c, q) /\ (q = 1 \/ c[q - 1] # QUOTE)}

\* The quote that opens the span left open at the end of c.
OpeningQuote(c) == CHOOSE q \in OpeningQuotes(c): \A k \in OpeningQuotes(c): k <= q

IsSuffix(suf, s) == Len(suf) <= Len(s) /\ SubSeq(s, Len(s) - Len(suf) + 1, Len(s)) = suf

Unterminated(c) == QuotesIn(c, Len(c)) % 2 = 1

\* C9: parseCsv always returns: the loop ends and the grid is a sequence of
\* rows of cells. With an unterminated quote, all that was read after the
\* opening quote is the end of the pending value, and that value, trimmed, is
\* the last cell of the last row pushed.
C9_TerminatesAndFlushes ==
    /\ <>(pc = "done")
    /\ [](pc = "done" =>
            /\ rows # <<>>
            /\ Len(grid) <= Len(rows)
            /\ Unterminated(clean) =>
                /\ inQuotes
                /\ IsSuffix(Unquoted(SubSeq(clean, OpeningQuote(clean) + 1, Len(clean))), value)
                /\ rows[Len(rows)] = current
                /\ current[Len(current)] = Trim(value))

\* parseCsv returned on a text whose last quote was never closed, with
\* characters read after it.
C9_Witness ==
    /\ pc = "done"
    /\ inQuotes
    /\ value # <<>>
    /\ grid # <<>>

\* C10: every row of the returned grid has a non-empty cell; of the rows read,
\* exactly those with a non-empty cell are returned.
C10_NoBlankRowInGrid ==
    pc = "done" =>
        /\ \A r \in 1..Len(grid): \E k \in 1..Len(grid[r]): grid[r][k] # <<>>
        /\ Len(grid) = Cardinality({r \in 1..Len(rows): \E k \in 1..Len(rows[r]): rows[r][k] # <<>>})

\* A blank row was read and dropped, another row was kept.
C10_Witness ==
    /\ pc = "done"
    /\ Len(grid) >= 1
    /\ Len(grid) < Len(rows)

\* C11 as claimed: inside a quoted span every character other than a double
\* quote, the carriage return included, is appended to the cell being read
\* and ends neither the cell nor the row.
C11_EveryQuotedCharAppended ==
    [][(pc = "scan" /\ inQuotes /\ i <= Len(clean) /\ clean[i] # QUOTE) =>
          /\ value' = Append(value, clean[i])
          /\ current' = current
          /\ rows' = rows
          /\ inQuotes']_vars

\* C11 amended: inside a quoted span every character other than a double
\* quote and a carriage return is appended unchanged to the cell being read; a
\* carriage return is dropped; neither ends the cell, the row or the span.
C11_QuotedCharAppendedButCR ==
    [][(pc = "scan" /\ inQuotes /\ i <= Len(clean) /\ clean[i] # QUOTE) =>
          /\ value' = IF clean[i] = CR THEN value ELSE Append(value, clean[i])
          /\ i' = i + 1
          /\ current' = current
          /\ rows' = rows
          /\ inQuotes']_vars

\* A newline was read inside a quoted span and is in the cell.
C11_Witness ==
    /\ pc = "scan"
    /\ inQuotes
    /\ i > 1
    /\ clean[i - 1] = LF
    /\ value # <<>>
    /\ value[Len(value)] = LF

\* C20: no cell of the returned grid starts or ends with whitespace, whether
\* the whitespace stood outside quotes or inside a quoted field.
C20_CellsTrimmed ==
    pc = "done" =>
        \A r \in 1..Len(grid): \A k \in 1..Len(grid[r]):
            LET cell == grid[r][k] IN
            cell # <<>> => (cell[1] \notin WhiteSpace /\ cell[Len(cell)] \notin WhiteSpace)

\* parseCsv returned a cell whose quoted value ended with whitespace.
C20_Witness ==
    /\ pc = "done"
    /\ grid # <<>>
    /\ \E k \in 2..Len(clean):
        clean[k] = QUOTE /\ Enclosed(clean, k) /\ clean[k - 1] \in {SPACE, LF}
    /\ value # <<>>
    /\ value[Len(value)] \in WhiteSpace

\* The text with every carriage return taken out.
WithoutCR(t) == SelectSeq(t, LAMBDA c: c # CR)

\* C28: parseCsv returns for a text the grid it returns for the text without
\* its carriage returns, wherever they stand.
C28_SameGridWithoutCR ==
    pc = "done" => grid = ParseCsv(WithoutCR(text))

----------------------------------------------------------------------------
(* Properties of buildDrilldownTable and DrilldownReport, checked under
   SpecDrilldown *)

Built == pc \in {"built", "rendered"}

Returned == Built /\ thrown = NoError

\* The rows parseCsv gives for the uploaded text.
Parsed == ParseCsv(text)

\* Position in Parsed of the row the columns of the returned table come from.
HeaderAt == IF drilldownTable.title = Undefined THEN 1 ELSE 2

\* The rows of Parsed below the header row.
DataBelowHeader == SubSeq(Parsed, HeaderAt + 1, Len(Parsed))

IsScoreHeader(h) == ToLowerCase(h) = Str_score

\* Columns of the returned table headed "score", in any letter case.
ScoreColumns == {k \in 1..Len(drilldownTable.columns): IsScoreHeader(drilldownTable.columns[k])}

FirstScoreColumn == CHOOSE k \in ScoreColumns: \A m \in ScoreColumns: k <= m

Scored(row) == FirstScoreColumn <= Len(row) /\ row[FirstScoreColumn] # <<>>

NonEmptyCells(row) == {k \in 1..Len(row): row[k] # <<>>}

\* Only the first cell of the row can be non-empty.
OnlyFirstCell(row) == Len(row) <= 1 \/ \A k \in 2..Len(row): row[k] = <<>>

\* The row that follows the optional title row has a "score" cell, rows
\* follow it, and none of them has a value in that column.
AllRowsUnscored ==
    /\ Len(Parsed) >= 1
    /\ LET at   == IF OnlyFirstCell(Parsed[1]) THEN 2 ELSE 1
           hits == IF Len(Parsed) >= at
                   THEN {k \in 1..Len(Parsed[at]): IsScoreHeader(Parsed[at][k])}
                   ELSE {}
       IN /\ hits # {}
          /\ Len(Parsed) > at
          /\ LET col == CHOOSE k \in hits: \A m \in hits: k <= m IN
             \A r \in (at + 1)..Len(Parsed): ~(col <= Len(Parsed[r]) /\ Parsed[r][col] # <<>>)

\* C1: a CSV with a "Score" header and data rows, none of which has a Score
\* value, fails with 'CSV missing data rows' and no table is stored.
C1_AllUnscoredIsNoDataError ==
    (Built /\ AllRowsUnscored) => (thrown = NoDataError /\ drilldownTable = Null)

\* C2 as claimed: every row of the table buildDrilldownTable returns has as
\* many cells as the table has columns.
C2_ReturnedRowsRectangular ==
    Returned =>
        \A r \in 1..Len(drilldownTable.rows):
            Len(drilldownTable.rows[r]) = Len(drilldownTable.columns)

\* C2 amended: buildDrilldownTable returns each kept data row with the cells
\* its line has; the rows DrilldownReport renders (sanitizeRows) have exactly
\* one cell per column: the line's cell where it has one, '' where the line is
\* shorter, and nothing for cells beyond the last column.
C2_RowsRectangularOnceSanitized ==
    /\ Returned =>
        \A r \in 1..Len(drilldownTable.rows):
            \E d \in 1..Len(DataBelowHeader): drilldownTable.rows[r] = DataBelowHeader[d]
    /\ pc = "rendered" =>
        /\ Len(normalizedRows) = Len(drilldownTable.rows)
        /\ \A r \in 1..Len(normalizedRows):
            /\ Len(normalizedRows[r]) = Len(drilldownTable.columns)
            /\ \A k \in 1..Len(normalizedRows[r]):
                normalizedRows[r][k] =
                    IF k <= Len(drilldownTable.rows[r]) THEN drilldownTable.rows[r][k] ELSE <<>>

\* A table with a row shorter and a row longer than its column list was rendered.
C2_Witness ==
    /\ pc = "rendered"
    /\ \E r \in 1..Len(drilldownTable.rows): Len(drilldownTable.rows[r]) < Len(drilldownTable.columns)
    /\ \E r \in 1..Len(drilldownTable.rows): Len(drilldownTable.rows[r]) > Len(drilldownTable.columns)

\* The returned table's columns are the labels of row `at` of Parsed.
ColumnsFrom(at) ==
    /\ Len(Parsed) >= at
    /\ Len(drilldownTable.columns) = Len(Parsed[at])
    /\ \A k \in 1..Len(Parsed[at]):
        Parsed[at][k] # <<>> => drilldownTable.columns[k] = Parsed[at][k]

\* C5 as claimed: the first row is the title, and the columns start at the
\* second row, exactly when the first row has at most one non-empty cell.
C5_TitleIffAtMostOneNonEmptyCell ==
    Returned =>
        IF Cardinality(NonEmptyCells(Parsed[1])) <= 1
        THEN drilldownTable.title = Parsed[1][1] /\ ColumnsFrom(2)
        ELSE drilldownTable.title = Undefined /\ ColumnsFrom(1)

\* C5 amended: the first row is the title, and the columns start at the second
\* row, exactly when the first row has one cell or all its cells after the
\* first are empty; otherwise there is no title and the columns are the first
\* row. When that leaves no row, the header is reported missing.
C5_TitleIffOnlyFirstCell ==
    /\ Returned =>
        IF OnlyFirstCell(Parsed[1])
        THEN drilldownTable.title = Parsed[1][1] /\ ColumnsFrom(2)
        ELSE drilldownTable.title = Undefined /\ ColumnsFrom(1)
    /\ (Built /\ thrown = HeaderError) => OnlyFirstCell(Parsed[1])

\* A first row of several cells, the first one alone filled, became the title.
C5_Witness ==
    /\ Returned
    /\ Len(Parsed[1]) > 1
    /\ drilldownTable.title = Parsed[1][1]

\* The rows of the text as scanned, trimmed, blank rows still among them.
TrimmedRows ==
    LET scanned == Flush(ScanAll(Clean(text), ScanStart)).rows IN
    [r \in 1..Len(scanned) |-> [k \in 1..Len(scanned[r]) |-> Trim(scanned[r][k])]]

\* Position in TrimmedRows of the first row with a non-empty cell.
FirstNonBlank ==
    CHOOSE r \in 1..Len(TrimmedRows):
        /\ NonEmptyCells(TrimmedRows[r]) # {}
        /\ \A q \in 1..(r - 1): NonEmptyCells(TrimmedRows[q]) = {}

\* C29: a title, when the returned table has one, is not empty and is the
\* first cell of the first non-blank row of the text; a first non-blank row
\* whose first cell is empty gives no title.
C29_TitleIsFirstCellOfFirstRow ==
    Returned =>
        /\ drilldownTable.title # Undefined =>
            /\ drilldownTable.title # <<>>
            /\ drilldownTable.title = TrimmedRows[FirstNonBlank][1]
        /\ TrimmedRows[FirstNonBlank][1] = <<>> => drilldownTable.title = Undefined

\* A one-cell first line became the title and the header line after it starts
\* with an empty cell.
C29_Witness ==
    /\ Returned
    /\ drilldownTable.title # Undefined
    /\ Len(Parsed[1]) = 1
    /\ Parsed[2][1] = <<>>

\* C6: with a "score" header the returned rows are the data rows, in order,
\* that have a value in the first such column (a row too short for it has
\* none); without one they are all the data rows.
C6_RowsAreScoredDataRows ==
    Returned =>
        IF ScoreColumns = {}
        THEN drilldownTable.rows = DataBelowHeader
        ELSE drilldownTable.rows = SelectSeq(DataBelowHeader, Scored)

\* Some data rows were dropped for want of a score, one of them too short to
\* have the cell, and some were kept.
C6_Witness ==
    /\ Returned
    /\ ScoreColumns # {}
    /\ Len(drilldownTable.rows) >= 1
    /\ \E d \in 1..Len(DataBelowHeader): Len(DataBelowHeader[d]) < FirstScoreColumn

\* C7: 'CSV is empty' exactly when the grid has no row; 'CSV missing header
\* row' exactly when the grid has rows and none is left once the title row is
\* taken; 'CSV missing data rows' when a header row is left and no row
\* follows it; and a failure stores no table.
C7_ErrorsByGridShape ==
    Built =>
        /\ thrown = EmptyError <=> Len(Parsed) = 0
        /\ thrown = HeaderError <=> (Len(Parsed) = 1 /\ OnlyFirstCell(Parsed[1]))
        /\ (\/ Len(Parsed) = 1 /\ ~OnlyFirstCell(Parsed[1])
            \/ Len(Parsed) = 2 /\ OnlyFirstCell(Parsed[1])) => thrown = NoDataError
        /\ thrown # NoError => drilldownTable = Null
        /\ thrown = NoError => drilldownTable # Null

\* The upload failed for want of a header row.
C7_Witness == Built /\ thrown = HeaderError /\ drilldownTable = Null

\* C8: when two adjacent rows hold the same non-empty value in a column, the
\* lower cell is shown blank (the placeholder, class empty) and its
\* data-value is still the value; every cell's data-value is the table's
\* value for it, whatever is displayed.
C8_RepeatBlankedRawKept ==
    pc = "rendered" =>
        \A r \in 1..Len(cells): \A k \in 1..Len(cells[r]):
            LET raw(n) == IF k <= Len(drilldownTable.rows[n]) THEN drilldownTable.rows[n][k] ELSE <<>>
            IN /\ cells[r][k].dataValue = raw(r)
               /\ (r > 1 /\ raw(r) # <<>> /\ raw(r) = raw(r - 1)) =>
                    /\ displayRows[r][k] = <<>>
                    /\ cells[r][k].content = <<NBSP>>
                    /\ cells[r][k].empty
                    /\ ~cells[r][k].badge

\* A repeated value was rendered: blank on screen, kept in data-value.
C8_Witness ==
    /\ pc = "rendered"
    /\ \E r \in 2..Len(cells): \E k \in 1..Len(cells[r]):
        /\ cells[r][k].dataValue # <<>>
        /\ cells[r][k].dataValue = cells[r - 1][k].dataValue
        /\ displayRows[r][k] = <<>>
        /\ cells[r][k].content = <<NBSP>>

\* C12: column k of the returned table is cell k of the header row when that
\* cell is non-empty and "Column k" (k counted from 1) when it is empty; no
\* label is empty and there are as many columns as header cells.
C12_ColumnsAreHeaderOrSynthetic ==
    Returned =>
        /\ Len(drilldownTable.columns) = Len(Parsed[HeaderAt])
        /\ \A k \in 1..Len(drilldownTable.columns):
            /\ drilldownTable.columns[k] # <<>>
            /\ drilldownTable.columns[k] =
                 IF Parsed[HeaderAt][k] # <<>> THEN Parsed[HeaderAt][k]
                 ELSE <<"C", "o", "l", "u", "m", "n", " ", ToString(k)>>

\* A header row with empty cells, the second among them, got synthetic labels.
C12_Witness ==
    /\ Returned
    /\ Len(Parsed[HeaderAt]) >= 3
    /\ Parsed[HeaderAt][2] = <<>>
    /\ drilldownTable.columns[2] = <<"C", "o", "l", "u", "m", "n", " ", "2">>

----------------------------------------------------------------------------
(* Properties of DrilldownReport on any table, checked under SpecReport *)

\* The classification rules in priority order: how the key is tested, against
\* which words, and the role it gives.
RoleRules ==
    << [test |-> "contains", words |-> <<"growth", "category">>, role |-> "growth-badge"],
       [test |-> "equals",   words |-> <<"kpis">>,               role |-> "kpis"],
       [test |-> "equals",   words |-> <<"category">>,           role |-> "category"],
       [test |-> "equals",   words |-> <<"score">>,              role |-> "score"],
       [test |-> "equals",   words |-> <<"kpi">>,                role |-> "kpi"],
       [test |-> "equals",   words |-> <<"description">>,        role |-> "description"],
       [test |-> "contains", words |-> <<"profit", "driver">>,   role |-> "profit-driver"] >>

\* The characters of a rule's words, joined by single spaces.
WordChars(w) ==
    CASE w = "growth"      -> <<"g", "r", "o", "w", "t", "h">>
      [] w = "category"    -> <<"c", "a", "t", "e", "g", "o", "r", "y">>
      [] w = "kpis"        -> <<"k", "p", "i", "s">>
      [] w = "score"       -> <<"s", "c", "o", "r", "e">>
      [] w = "kpi"         -> <<"k", "p", "i">>
      [] w = "description" -> <<"d", "e", "s", "c", "r", "i", "p", "t", "i", "o", "n">>
      [] w = "profit"      -> <<"p", "r", "o", "f", "i", "t">>
      [] w = "driver"      -> <<"d", "r", "i", "v", "e", "r">>

RuleText(rule) == JoinWith([n \in 1..Len(rule.words) |-> WordChars(rule.words[n])], SPACE)

\* s occurs in key as a run of consecutive characters.
Occurs(s, key) ==
    \E from \in 1..Len(key): \E to \in from..Len(key): SubSeq(key, from, to) = s

RuleMatches(rule, key) ==
    IF rule.test = "contains" THEN Occurs(RuleText(rule), key) ELSE key = RuleText(rule)

\* The role the first matching rule gives, "default" when none matches.
RoleOfKey(key) ==
    LET hits == {n \in 1..Len(RoleRules): RuleMatches(RoleRules[n], key)} IN
    IF hits = {} THEN "default"
    ELSE RoleRules[CHOOSE n \in hits: \A m \in hits: n <= m].role

\* The header lower-cased, without surrounding whitespace.
KeyOf(column) == TrimEnd(TrimStart(ToLowerCase(column)))

\* The role a rendered column was given, read off its width, class and badge flag.
RoleGiven(meta) ==
    CASE meta.isGrowth /\ meta.className = "growth-column" /\ meta.width = "30px" -> "growth-badge"
      [] ~meta.isGrowth /\ meta.className = "indent-column indent-kpis" /\ meta.width = "50px" -> "kpis"
      [] ~meta.isGrowth /\ meta.className = "indent-column indent-category" /\ meta.width = "110px" -> "category"
      [] ~meta.isGrowth /\ meta.className = "detail-column" /\ meta.width = "40px" -> "score"
      [] ~meta.isGrowth /\ meta.className = "detail-column" /\ meta.width = "310px" -> "kpi"
      [] ~meta.isGrowth /\ meta.className = "detail-column" /\ meta.width = "242px" -> "description"
      [] ~meta.isGrowth /\ meta.className = "detail-column" /\ meta.width = "157px" -> "profit-driver"
      [] ~meta.isGrowth /\ meta.className = "detail-column" /\ meta.width = "150px" -> "default"
      [] OTHER -> "none"

\* C13: every column gets the role of the first rule its lower-cased, trimmed
\* header matches (growth category, kpis, category, score, kpi, description,
\* profit driver, else default); the growth badge column alone has an empty
\* header label; columns whose headers differ only in letter case or
\* surrounding whitespace get the same role.
C13_RoleByFirstMatchingRule ==
    pc = "rendered" =>
        /\ Len(columnMeta) = Len(drilldownTable.columns)
        /\ \A k \in 1..Len(columnMeta):
            /\ RoleGiven(columnMeta[k]) = RoleOfKey(KeyOf(drilldownTable.columns[k]))
            /\ columnMeta[k].label = drilldownTable.columns[k]
            /\ columnMeta[k].headerLabel =
                 IF RoleGiven(columnMeta[k]) = "growth-badge" THEN <<>> ELSE drilldownTable.columns[k]
        /\ \A j \in 1..Len(columnMeta): \A k \in 1..Len(columnMeta):
             KeyOf(drilldownTable.columns[j]) = KeyOf(drilldownTable.columns[k]) =>
                RoleGiven(columnMeta[j]) = RoleGiven(columnMeta[k])

\* A header naming both a profit driver and a growth category was rendered next
\* to two headers that differ only in case and whitespace.
C13_Witness ==
    /\ pc = "rendered"
    /\ \E k \in 1..Len(columnMeta):
        /\ Occurs(<<"p", "r", "o", "f", "i", "t">>, KeyOf(drilldownTable.columns[k]))
        /\ RoleGiven(columnMeta[k]) = "growth-badge"
    /\ \E k \in 1..Len(columnMeta):
        /\ drilldownTable.columns[k] # KeyOf(drilldownTable.columns[k])
        /\ RoleGiven(columnMeta[k]) = "score"

\* C14: no body cell has empty content. A non-blank display value is the
\* content, inside a badge exactly in a growth-badge column; a blank display
\* value is rendered as a non-breaking space, without a badge.
C14_NoEmptyBodyCell ==
    pc = "rendered" =>
        \A r \in 1..Len(cells): \A k \in 1..Len(cells[r]):
            LET shown == IF k <= Len(displayRows[r]) THEN displayRows[r][k] ELSE <<>> IN
            /\ cells[r][k].content # <<>>
            /\ IF TrimEnd(TrimStart(shown)) # <<>>
               THEN cells[r][k].content = shown /\ (cells[r][k].badge <=> columnMeta[k].isGrowth)
               ELSE cells[r][k].content = <<NBSP>> /\ ~cells[r][k].badge

\* A growth-badge column was rendered with a badge in one row and, for a
\* repeated value, the placeholder in the next.
C14_Witness ==
    /\ pc = "rendered"
    /\ \E k \in 1..Len(columnMeta): \E r \in 2..Len(cells):
        /\ columnMeta[k].isGrowth
        /\ cells[r - 1][k].badge
        /\ normalizedRows[r][k] # <<>>
        /\ cells[r][k].content = <<NBSP>>

\* C21: a displayed cell is its raw value (the normalized cell, rawValue in
\* the code) when its row is the first or the raw value differs from the raw
\* value above it, and blank otherwise; so of a run of equal values only the
\* first is shown, and nothing else in the table matters.
C21_ShownUnlessEqualToRawAbove ==
    pc = "rendered" =>
        /\ Len(displayRows) = Len(normalizedRows)
        /\ \A r \in 1..Len(normalizedRows):
            /\ Len(displayRows[r]) = Len(normalizedRows[r])
            /\ \A k \in 1..Len(normalizedRows[r]):
                displayRows[r][k] =
                    IF r = 1 \/ normalizedRows[r][k] # normalizedRows[r - 1][k]
                    THEN normalizedRows[r][k]
                    ELSE <<>>

\* A column holds the same value in three consecutive rows and only the first
\* row shows it, next to a column whose values differ.
C21_Witness ==
    /\ pc = "rendered"
    /\ Len(normalizedRows) = 3
    /\ \E k \in 1..Len(drilldownTable.columns): \E j \in 1..Len(drilldownTable.columns):
        /\ normalizedRows[1][k] # <<>>
        /\ normalizedRows[2][k] = normalizedRows[1][k]
        /\ normalizedRows[3][k] = normalizedRows[1][k]
        /\ displayRows[1][k] = normalizedRows[1][k]
        /\ displayRows[2][k] = <<>>
        /\ displayRows[3][k] = <<>>
        /\ normalizedRows[2][j] # normalizedRows[1][j]

\* C27: whatever the rows of the table look like, every normalized row and
\* every display row has one cell per column: the trimmed cell of the table's
\* row where it has one, '' where it has none; cells beyond the last column
\* are dropped.
C27_OneCellPerColumn ==
    pc = "rendered" =>
        /\ Len(normalizedRows) = Len(drilldownTable.rows)
        /\ Len(displayRows) = Len(drilldownTable.rows)
        /\ \A r \in 1..Len(drilldownTable.rows):
            /\ Len(normalizedRows[r]) = Len(drilldownTable.columns)
            /\ Len(displayRows[r]) = Len(drilldownTable.columns)
            /\ \A k \in 1..Len(drilldownTable.columns):
                normalizedRows[r][k] =
                    IF k <= Len(drilldownTable.rows[r])
                    THEN Trim(drilldownTable.rows[r][k])
                    ELSE <<>>

\* A table with a row without cells, a row as long as and a row longer than
\* the column list was rendered, one of its cells padded with white space.
C27_Witness ==
    /\ pc = "rendered"
    /\ \E r \in 1..Len(drilldownTable.rows): drilldownTable.rows[r] = <<>>
    /\ \E r \in 1..Len(drilldownTable.rows):
        Len(drilldownTable.rows[r]) = Len(drilldownTable.columns)
    /\ \E r \in 1..Len(drilldownTable.rows):
        /\ Len(drilldownTable.rows[r]) > Len(drilldownTable.columns)
        /\ normalizedRows[r][1] # drilldownTable.rows[r][1]

----------------------------------------------------------------------------
(* The reviewer App: one action per event handler and per continuation after
   an await. A handler runs to completion and its state updates are in force
   when the next handler starts. *)

InitApp ==
    /\ text = <<>>
    /\ pc = "App"
    /\ clean = <<>>
    /\ i = ScanStart.i
    /\ rows = ScanStart.rows
    /\ current = ScanStart.current
    /\ value = ScanStart.value
    /\ inQuotes = ScanStart.inQuotes
    /\ grid = <<>>
    /\ drilldownTable = Null
    /\ thrown = NoError
    /\ normalizedRows = <<>>
    /\ displayRows = <<>>
    /\ columnMeta = <<>>
    /\ cells = <<>>
    /\ SessionStart
    /\ RenderIdle
    /\ ServerIdle

AppOnly ==
    /\ pc = "App"
    /\ UNCHANGED <<text, pc>>
    /\ UNCHANGED parserVars
    /\ UNCHANGED reportVars
    /\ UNCHANGED renderVars
    /\ UNCHANGED serverVars

\* <input type="file"> onChange on the bundle input: onBundleUpload starts and
\* waits for file.text().
PickBundleFile ==
    /\ Len(reads) + clicks.report + clicks.drilldown < MaxOperations
    /\ \E file \in BundleFiles:
        reads' = Append(reads, [kind |-> "bundle", file |-> file, settled |-> FALSE])
    /\ UNCHANGED <<bundle, chosen, pdfUrl, drilldownPdfUrl, alerts, posted, responses, clicks>>
    /\ UNCHANGED <<drilldownTable, thrown>>
    /\ AppOnly

\* onChange on the drilldown input: onDrilldownUpload starts and waits.
PickDrilldownFile ==
    /\ Len(reads) + clicks.report + clicks.drilldown < MaxOperations
    /\ \E file \in DrilldownFiles:
        reads' = Append(reads, [kind |-> "drilldown", file |-> file, settled |-> FALSE])
    /\ UNCHANGED <<bundle, chosen, pdfUrl, drilldownPdfUrl, alerts, posted, responses, clicks>>
    /\ UNCHANGED <<drilldownTable, thrown>>
    /\ AppOnly

\* Mutation of OnBundleUpload: the selection map survives the upload.
OnBundleUpload_KeepsChosen ==
    /\ \E r \in 1..Len(reads):
        /\ reads[r].kind = "bundle"
        /\ ~reads[r].settled
        /\ reads' = [reads EXCEPT ![r].settled = TRUE]
        /\ IF HasRequiredFields(reads[r].file)
           THEN /\ bundle' = reads[r].file
                /\ UNCHANGED <<chosen, alerts>>
           ELSE /\ alerts' = alerts + 1
                /\ UNCHANGED <<bundle, chosen>>
    /\ UNCHANGED <<pdfUrl, drilldownPdfUrl, posted, responses, clicks>>
    /\ UNCHANGED <<drilldownTable, thrown>>
    /\ AppOnly

\* onBundleUpload after await file.text(): parse, check, store; or alert.
OnBundleUpload ==
    /\ \E r \in 1..Len(reads):
        /\ reads[r].kind = "bundle"
        /\ ~reads[r].settled
        /\ reads' = [reads EXCEPT ![r].settled = TRUE]
        /\ IF HasRequiredFields(reads[r].file)
           THEN /\ bundle' = reads[r].file
                /\ chosen' = EmptySelection
                /\ UNCHANGED alerts
           ELSE /\ alerts' = alerts + 1
                /\ UNCHANGED <<bundle, chosen>>
    /\ UNCHANGED <<pdfUrl, drilldownPdfUrl, posted, responses, clicks>>
    /\ UNCHANGED <<drilldownTable, thrown>>
    /\ AppOnly

\* onDrilldownUpload after await file.text(): build and store the table; or alert.
OnDrilldownFileRead ==
    /\ \E r \in 1..Len(reads):
        /\ reads[r].kind = "drilldown"
        /\ ~reads[r].settled
        /\ reads' = [reads EXCEPT ![r].settled = TRUE]
        /\ LET built == BuildDrilldownTable(reads[r].file) IN
            /\ thrown' = built.thrown
            /\ IF built.thrown = NoError
               THEN /\ drilldownTable' = built.table
                    /\ UNCHANGED alerts
               ELSE /\ alerts' = alerts + 1
                    /\ UNCHANGED drilldownTable
    /\ UNCHANGED <<bundle, chosen, pdfUrl, drilldownPdfUrl, posted, responses, clicks>>
    /\ AppOnly

\* Mutation of SetChosen: the new map holds the new entry only.
SetChosen_Replaces(id, t) ==
    chosen' = [k \in {id} |-> t]

\* setChosen((prev) => ({ ...prev, [section.id]: t }))
SetChosen(id, t) ==
    chosen' = [k \in DOMAIN chosen \cup {id} |-> IF k = id THEN t ELSE chosen[k]]

\* A radio button of a section of the loaded bundle is chosen.
ChooseOption ==
    /\ bundle # Null
    /\ \E n \in 1..Len(bundle.sections):
        \E o \in 1..Len(bundle.sections[n].options):
            /\ SetChosen(bundle.sections[n].id, bundle.sections[n].options[o].text)
    /\ UNCHANGED <<bundle, pdfUrl, drilldownPdfUrl, alerts, reads, posted, responses, clicks>>
    /\ UNCHANGED <<drilldownTable, thrown>>
    /\ AppOnly

\* Mutation of EditText: an edit also re-renders the summary requests that are
\* still pending.
EditText_RerendersPending ==
    /\ bundle # Null
    /\ \E n \in 1..Len(bundle.sections):
        \E t \in TypedTexts:
            SetChosen(bundle.sections[n].id, t)
    /\ posted' = [request \in 1..Len(posted) |->
                    IF posted[request].kind = "report" /\ responses[request] = "pending"
                    THEN [kind |-> "report", html |-> RenderReport(bundle, chosen')]
                    ELSE posted[request]]
    /\ UNCHANGED <<bundle, pdfUrl, drilldownPdfUrl, alerts, reads, responses, clicks>>
    /\ UNCHANGED <<drilldownTable, thrown>>
    /\ AppOnly

\* The text box of a section of the loaded bundle is edited.
EditText ==
    /\ bundle # Null
    /\ \E n \in 1..Len(bundle.sections):
        \E t \in TypedTexts:
            /\ SetChosen(bundle.sections[n].id, t)
    /\ UNCHANGED <<bundle, pdfUrl, drilldownPdfUrl, alerts, reads, posted, responses, clicks>>
    /\ UNCHANGED <<drilldownTable, thrown>>
    /\ AppOnly

\* createPdf up to its await: axios.post is called at once.
Post(kind, doc) ==
    /\ posted' = Append(posted, [kind |-> kind, html |-> doc])
    /\ responses' = Append(responses, "pending")

\* Mutation of FinalizeReport: a click while a request is in flight sends nothing.
FinalizeReport_OneAtATime ==
    /\ Len(reads) + clicks.report + clicks.drilldown < MaxOperations
    /\ clicks' = [clicks EXCEPT !.report = @ + 1]
    /\ IF bundle = Null \/ (\E request \in 1..Len(posted): responses[request] = "pending")
       THEN UNCHANGED <<posted, responses>>
       ELSE Post("report", RenderReport(bundle, chosen))
    /\ UNCHANGED <<bundle, chosen, pdfUrl, drilldownPdfUrl, alerts, reads>>
    /\ UNCHANGED <<drilldownTable, thrown>>
    /\ AppOnly

\* finalizeReport: nothing without a bundle, else render and post.
FinalizeReport ==
    /\ Len(reads) + clicks.report + clicks.drilldown < MaxOperations
    /\ clicks' = [clicks EXCEPT !.report = @ + 1]
    /\ IF bundle = Null
       THEN UNCHANGED <<posted, responses>>
       ELSE Post("report", RenderReport(bundle, chosen))
    /\ UNCHANGED <<bundle, chosen, pdfUrl, drilldownPdfUrl, alerts, reads>>
    /\ UNCHANGED <<drilldownTable, thrown>>
    /\ AppOnly

\* finalizeDrilldown: nothing without a table, else render and post.
FinalizeDrilldown ==
    /\ Len(reads) + clicks.report + clicks.drilldown < MaxOperations
    /\ clicks' = [clicks EXCEPT !.drilldown = @ + 1]
    /\ IF drilldownTable = Null
       THEN UNCHANGED <<posted, responses>>
       ELSE Post("drilldown", RenderDrilldownReport(drilldownTable))
    /\ UNCHANGED <<bundle, chosen, pdfUrl, drilldownPdfUrl, alerts, reads>>
    /\ UNCHANGED <<drilldownTable, thrown>>
    /\ AppOnly

\* Mutation of CreatePdf: a failed request also clears the stored URL.
CreatePdf_ClearsUrl ==
    /\ \E request \in 1..Len(posted), ok \in BOOLEAN:
        /\ responses[request] = "pending"
        /\ responses' = [responses EXCEPT ![request] = IF ok THEN "ok" ELSE "failed"]
        /\ IF ok
           THEN /\ IF posted[request].kind = "report"
                   THEN pdfUrl' = ObjectUrl(request) /\ UNCHANGED drilldownPdfUrl
                   ELSE drilldownPdfUrl' = ObjectUrl(request) /\ UNCHANGED pdfUrl
                /\ UNCHANGED alerts
           ELSE /\ alerts' = alerts + 1
                /\ IF posted[request].kind = "report"
                   THEN pdfUrl' = NoUrl /\ UNCHANGED drilldownPdfUrl
                   ELSE drilldownPdfUrl' = NoUrl /\ UNCHANGED pdfUrl
    /\ UNCHANGED <<bundle, chosen, reads, posted, clicks>>
    /\ UNCHANGED <<drilldownTable, thrown>>
    /\ AppOnly

\* createPdf after its await: the response is stored under a new object URL,
\* or the rejection is caught and alerted.
CreatePdf ==
    /\ \E request \in 1..Len(posted), ok \in BOOLEAN:
        /\ responses[request] = "pending"
        /\ responses' = [responses EXCEPT ![request] = IF ok THEN "ok" ELSE "failed"]
        /\ IF ok
           THEN /\ IF posted[request].kind = "report"
                   THEN pdfUrl' = ObjectUrl(request) /\ UNCHANGED drilldownPdfUrl
                   ELSE drilldownPdfUrl' = ObjectUrl(request) /\ UNCHANGED pdfUrl
                /\ UNCHANGED alerts
           ELSE /\ alerts' = alerts + 1
                /\ UNCHANGED <<pdfUrl, drilldownPdfUrl>>
    /\ UNCHANGED <<bundle, chosen, reads, posted, clicks>>
    /\ UNCHANGED <<drilldownTable, thrown>>
    /\ AppOnly

NextApp ==
    \/ PickBundleFile
    \/ PickDrilldownFile
    \/ OnBundleUpload
    \/ OnDrilldownFileRead
    \/ ChooseOption
    \/ EditText
    \/ FinalizeReport
    \/ FinalizeDrilldown
    \/ CreatePdf

SpecApp == InitApp /\ [][NextApp]_vars

----------------------------------------------------------------------------
(* pdf-service: the handler of POST /pdf, one action per await *)

InitServer ==
    /\ text = <<>>
    /\ pc = "server"
    /\ clean = <<>>
    /\ i = ScanStart.i
    /\ rows = ScanStart.rows
    /\ current = ScanStart.current
    /\ value = ScanStart.value
    /\ inQuotes = ScanStart.inQuotes
    /\ grid = <<>>
    /\ drilldownTable = Null
    /\ thrown = NoError
    /\ normalizedRows = <<>>
    /\ displayRows = <<>>
    /\ columnMeta = <<>>
    /\ cells = <<>>
    /\ SessionStart
    /\ RenderIdle
    /\ ServerIdle

ServerOnly ==
    /\ pc = "server"
    /\ UNCHANGED <<text, pc, drilldownTable, thrown>>
    /\ UNCHANGED parserVars
    /\ UNCHANGED reportVars
    /\ UNCHANGED sessionVars
    /\ UNCHANGED renderVars

\* The awaited call of request q resolves and the handler goes on to `next`,
\* or it rejects and with it the handler.
Await(q, at, next) ==
    /\ requests[q].pc = at
    /\ \/ requests' = [requests EXCEPT ![q].pc = next]
       \/ \E response \in RejectionResponses:
            requests' = [requests EXCEPT ![q].pc = "rejected", ![q].response = response]

\* A POST /pdf arrives, with or without html in its body.
Receive ==
    /\ \E q \in 1..MaxRequests, hasHtml \in BOOLEAN:
        /\ requests[q].pc = "idle"
        /\ requests' = [requests EXCEPT ![q].pc = "launch", ![q].hasHtml = hasHtml]
    /\ ServerOnly

\* const browser = await puppeteer.launch(...)
Launch ==
    /\ \E q \in 1..MaxRequests:
        /\ requests[q].pc = "launch"
        /\ \/ requests' = [requests EXCEPT ![q].pc = "newPage", ![q].browser = "open"]
           \/ \E response \in RejectionResponses:
                requests' = [requests EXCEPT ![q].pc = "rejected", ![q].response = response]
    /\ ServerOnly

\* const page = await browser.newPage()
NewPage ==
    /\ \E q \in 1..MaxRequests: Await(q, "newPage", "setContent")
    /\ ServerOnly

\* await page.setContent(html, { waitUntil: 'networkidle0' })
SetContent ==
    /\ \E q \in 1..MaxRequests: Await(q, "setContent", "pdf")
    /\ ServerOnly

\* const pdf = await page.pdf(...)
PrintPdf ==
    /\ \E q \in 1..MaxRequests: Await(q, "pdf", "close")
    /\ ServerOnly

\* await browser.close()
CloseBrowser ==
    /\ \E q \in 1..MaxRequests:
        /\ requests[q].pc = "close"
        /\ requests' = [requests EXCEPT ![q].pc = "send", ![q].browser = "closed"]
    /\ ServerOnly

\* res.setHeader('Content-Type', 'application/pdf'); res.send(pdf)
Send ==
    /\ \E q \in 1..MaxRequests:
        /\ requests[q].pc = "send"
        /\ requests' = [requests EXCEPT ![q].pc = "done", ![q].response = "pdf"]
    /\ ServerOnly

NextServer ==
    \/ Receive
    \/ Launch
    \/ NewPage
    \/ SetContent
    \/ PrintPdf
    \/ CloseBrowser
    \/ Send

SpecServer == InitServer /\ [][NextServer]_vars

\* A handler whose awaited call has settled is resumed.
FairSpecServer == SpecServer /\ WF_vars(NextServer)

----------------------------------------------------------------------------
(* Properties of the pdf-service, checked under FairSpecServer *)

\* The handling of the request has ended.
Ended(q) == requests[q].pc \in {"done", "rejected"}

\* C22: when the handling of a request ends, the browser it launched is
\* closed, on every path; so no browser is open once all requests have ended.
C22_BrowserClosedWhenHandlingEnds ==
    \A q \in 1..MaxRequests: Ended(q) => requests[q].browser # "open"

\* C23: every request that arrives is answered in the end; a request whose
\* conversion went through gets the PDF, and a request without html or whose
\* launch, page load or print failed gets an error response.
C23_EveryRequestAnswered ==
    /\ \A q \in 1..MaxRequests:
        (requests[q].pc # "idle") ~> (requests[q].response # "none")
    /\ [](\A q \in 1..MaxRequests:
            /\ requests[q].pc = "done" => requests[q].response = "pdf"
            /\ (Ended(q) /\ ~requests[q].hasHtml) => requests[q].response = "error"
            /\ requests[q].pc = "rejected" => requests[q].response = "error")

----------------------------------------------------------------------------
(* Properties of renderReport and Report, checked under SpecRender *)

Rendered == pc \in {"Report", "shown"}

\* C15: the document has one section per bundle section, in bundle order, with
\* its id and title; its text is the selection map's entry for the id when
\* there is one (an empty entry included), else the first option's text, else
\* ''. Entries for ids that are not in the bundle change nothing.
C15_ChosenTextElseFirstOption ==
    Rendered =>
        /\ Len(html.sections) = Len(bundle.sections)
        /\ \A n \in 1..Len(bundle.sections):
            LET from == bundle.sections[n]
                to   == html.sections[n]
            IN /\ to.id = from.id
               /\ to.title = from.title
               /\ from.id \in DOMAIN chosen => to.text = chosen[from.id]
               /\ (from.id \notin DOMAIN chosen /\ Len(from.options) > 0) =>
                    to.text = from.options[1].text
               /\ (from.id \notin DOMAIN chosen /\ Len(from.options) = 0) => to.text = ""
        /\ LET ids  == {bundle.sections[n].id : n \in 1..Len(bundle.sections)}
               kept == [id \in DOMAIN chosen \cap ids |-> chosen[id]]
           IN html = RenderReport(bundle, kept)

\* The sections a detail can be linked to: those with the detail's sectionId
\* when there are any, else those with the detail's own id.
LinkedSections ==
    LET named == IF "sectionId" \in DOMAIN detail
                 THEN {n \in 1..Len(html.sections): html.sections[n].id = detail.sectionId}
                 ELSE {}
    IN IF named # {} THEN named
       ELSE {n \in 1..Len(html.sections): html.sections[n].id = detail.id}

OwnText == IF "text" \in DOMAIN detail THEN detail.text ELSE ""

\* C19: a summary detail shows the text of the section named by its sectionId
\* when there is such a section, else of the section with the detail's own id;
\* with no such section, or when that section's text is empty, it shows the
\* detail's own text, '' when the detail has none.
C19_SummaryTextFromLinkedSection ==
    pc = "shown" =>
        IF LinkedSections = {} THEN summaryText = OwnText
        ELSE LET n == CHOOSE m \in LinkedSections: \A k \in LinkedSections: k <= m IN
             summaryText = IF html.sections[n].text # "" THEN html.sections[n].text ELSE OwnText

----------------------------------------------------------------------------
(* Properties of the reviewer App, checked under SpecApp *)

\* The uploaded text parses and the object has a clientName and sections.
WellFormedBundle(file) ==
    /\ file.kind = "bundle"
    /\ "clientName" \in DOMAIN file
    /\ file.clientName # ""
    /\ "sections" \in DOMAIN file

\* In this step the handler of read r resumes after its await.
Resumes(r, kind) ==
    /\ reads[r].kind = kind
    /\ ~reads[r].settled
    /\ reads'[r].settled

\* Every entry of the selection map is for a section of the loaded bundle and
\* is a typed text or the text of one of that section's options.
ChoicesAreOfLoadedBundle ==
    IF bundle = Null THEN chosen = EmptySelection
    ELSE \A id \in DOMAIN chosen:
            \E n \in 1..Len(bundle.sections):
                /\ bundle.sections[n].id = id
                /\ \/ chosen[id] \in TypedTexts
                   \/ \E o \in 1..Len(bundle.sections[n].options):
                        bundle.sections[n].options[o].text = chosen[id]

\* C16: a bundle upload that succeeds leaves the selection map empty and the
\* uploaded bundle loaded, whatever came before; the selection map never holds
\* a choice that was made against another bundle than the loaded one.
C16_UploadResetsSelection ==
    /\ [][\A r \in 1..Len(reads):
            (Resumes(r, "bundle") /\ WellFormedBundle(reads[r].file)) =>
                (chosen' = EmptySelection /\ bundle' = reads[r].file)]_vars
    /\ []ChoicesAreOfLoadedBundle

\* A choice made against the first bundle was sent for printing; a second
\* bundle with the same section id is loaded now and nothing is chosen.
C16_Witness ==
    /\ bundle # Null
    /\ bundle.clientName = "Bolt"
    /\ chosen = EmptySelection
    /\ \E request \in 1..Len(posted):
        /\ posted[request].kind = "report"
        /\ posted[request].html.clientName = "Acme"
        /\ posted[request].html.sections[1].text = "y"

\* One more alert, and the loaded data and both PDF URLs as they were.
OneAlertNothingElse ==
    /\ alerts' = alerts + 1
    /\ UNCHANGED <<bundle, chosen, drilldownTable, pdfUrl, drilldownPdfUrl>>

\* C17: a bundle upload whose text is malformed or lacks clientName or
\* sections, a drilldown upload on which buildDrilldownTable fails, and a PDF
\* request that fails each raise exactly one alert and change neither the
\* bundle, the selection map, the drilldown table nor a PDF URL.
C17_FailureAlertsOnceAndKeepsState ==
    [][/\ \A r \in 1..Len(reads):
            (Resumes(r, "bundle") /\ ~WellFormedBundle(reads[r].file)) => OneAlertNothingElse
       /\ \A r \in 1..Len(reads):
            (Resumes(r, "drilldown") /\ BuildDrilldownTable(reads[r].file).thrown # NoError)
                => OneAlertNothingElse
       /\ \A request \in 1..Len(posted):
            (responses[request] = "pending" /\ responses'[request] = "failed")
                => OneAlertNothingElse]_vars

\* After a bundle was loaded and a choice made, an upload and a PDF request
\* have both failed, and the bundle and the choice are kept.
C17_Witness ==
    /\ alerts = 2
    /\ bundle # Null
    /\ chosen # EmptySelection
    /\ \E r \in 1..Len(reads): reads[r].settled /\ ~WellFormedBundle(reads[r].file)
    /\ \E request \in 1..Len(posted): responses[request] = "failed"

\* C18: a click on a finalize button sends one POST /pdf request, at once and
\* whatever requests are pending, when the bundle (or table) is loaded, and
\* none when it is not; nothing but a click sends a request, so a failed
\* request is not sent again.
C18_OneRequestPerClick ==
    [][/\ clicks'.report # clicks.report =>
            IF bundle # Null
            THEN /\ posted' = Append(posted, [kind |-> "report", html |-> RenderReport(bundle, chosen)])
                 /\ responses' = Append(responses, "pending")
            ELSE posted' = posted
       /\ clicks'.drilldown # clicks.drilldown =>
            IF drilldownTable # Null
            THEN /\ posted' = Append(posted, [kind |-> "drilldown",
                                               html |-> RenderDrilldownReport(drilldownTable)])
                 /\ responses' = Append(responses, "pending")
            ELSE posted' = posted
       /\ posted' # posted => clicks' # clicks]_vars

\* Two clicks on the summary button, and both requests are pending together.
C18_Witness ==
    /\ clicks.report = 2
    /\ Len(posted) = 2
    /\ \A request \in 1..Len(posted): responses[request] = "pending"

\* The uploads of one kind started so far.
Uploads(kind) == {r \in 1..Len(reads): reads[r].kind = kind}

\* The upload has completed and stored what it read.
Succeeded(r) ==
    /\ reads[r].settled
    /\ IF reads[r].kind = "bundle"
       THEN WellFormedBundle(reads[r].file)
       ELSE BuildDrilldownTable(reads[r].file).thrown = NoError

\* C24: when exactly two uploads of a kind were started, A before B, and both
\* have completed with success, the UI holds what was read from B, whichever
\* read completed first.
C24_LaterUploadWins ==
    \A a \in 1..Len(reads): \A b \in 1..Len(reads):
        (/\ a < b
         /\ reads[a].kind = reads[b].kind
         /\ Uploads(reads[a].kind) = {a, b}
         /\ Succeeded(a)
         /\ Succeeded(b)) =>
            IF reads[b].kind = "bundle"
            THEN bundle = reads[b].file
            ELSE drilldownTable = BuildDrilldownTable(reads[b].file).table

\* The requests sent so far for one kind of report.
Requests(kind) == {request \in 1..Len(posted): posted[request].kind = kind}

\* C25: when exactly two requests for a report were sent, A before B, and both
\* were answered with success, the stored URL of that report is the one made
\* from B's response, whichever response arrived first.
C25_LaterClickWins ==
    \A a \in 1..Len(posted): \A b \in 1..Len(posted):
        (/\ a < b
         /\ posted[a].kind = posted[b].kind
         /\ Requests(posted[a].kind) = {a, b}
         /\ responses[a] = "ok"
         /\ responses[b] = "ok") =>
            IF posted[b].kind = "report"
            THEN pdfUrl = ObjectUrl(b)
            ELSE drilldownPdfUrl = ObjectUrl(b)

\* C26: the document of a request is rendered from the bundle and selection
\* map (or the table) of the state in which the button is clicked, and no
\* later step changes the document of a request already sent; the PDF is made
\* from that document.
C26_RequestKeepsClickTimeHtml ==
    [][/\ \A request \in 1..Len(posted): posted'[request] = posted[request]
       /\ Len(posted') > Len(posted) =>
            posted'[Len(posted')].html =
                IF clicks'.report # clicks.report
                THEN RenderReport(bundle, chosen)
                ELSE RenderDrilldownReport(drilldownTable)]_vars

\* A summary request is pending with the document of the click, while the
\* selection map has been edited since and another bundle uploaded.
C26_Witness ==
    /\ bundle # Null
    /\ \E request \in 1..Len(posted):
        /\ posted[request].kind = "report"
        /\ responses[request] = "pending"
        /\ posted[request].html.clientName # bundle.clientName
        /\ chosen # EmptySelection

\* The ids of the sections of the loaded bundle.
SectionIds == {bundle.sections[n].id : n \in 1..Len(bundle.sections)}

\* C30: a step that changes the selection map without an upload completing
\* (an option chosen, a text box edited) sets the entry of one section of the
\* loaded bundle to a text and leaves the other entries, the bundle, the
\* drilldown table and both PDF URLs as they were.
C30_ChoiceSetsOneEntryOnly ==
    [][(chosen' # chosen /\ reads' = reads) =>
            /\ bundle # Null
            /\ \E id \in SectionIds:
                /\ DOMAIN chosen' = DOMAIN chosen \cup {id}
                /\ \A other \in DOMAIN chosen \ {id}: chosen'[other] = chosen[other]
                /\ \/ chosen'[id] \in TypedTexts
                   \/ \E n \in 1..Len(bundle.sections): \E o \in 1..Len(bundle.sections[n].options):
                        /\ bundle.sections[n].id = id
                        /\ chosen'[id] = bundle.sections[n].options[o].text
            /\ UNCHANGED <<bundle, drilldownTable, pdfUrl, drilldownPdfUrl>>]_vars

\* Both sections of a bundle have an entry, one chosen and one typed, with a
\* drilldown table loaded.
C30_Witness ==
    /\ drilldownTable # Null
    /\ DOMAIN chosen = {"s1", "s2"}
    /\ chosen["s1"] = "y"
    /\ chosen["s2"] = "typed"

====
